---------------------------- MODULE Spec2Model ----------------------------
(***************************************************************************)
(* Model of the LLM-output reconciliation pipeline of the video SEO        *)
(* generator: the two pipeline entry points                                *)
(*   run_seo_analysis_with_langchain   (src/utils/seo_agents.py)           *)
(*   analyze_video_with_groq           (src/analysis_function.py)          *)
(* with their JSON extraction, tag normalizer and fallback generators.     *)
(*                                                                         *)
(* Text returned by the Gateway is a sequence of lexical tokens; JSON      *)
(* values are records tagged by "type".  Python exceptions are modelled by *)
(* their class name so that the except clauses catch what they catch in    *)
(* the source.                                                             *)
(***************************************************************************)
EXTENDS Integers, Sequences, FiniteSets, TLC

(***************************************************************************)
(* Bounds of the model                                                     *)
(***************************************************************************)
\* largest number of tags a Gateway response or a normalizer input carries
\* beyond the required count
MaxExtra == 2
\* largest number literal that occurs in a Gateway text
MaxNum == 7

(***************************************************************************)
(* Program constants                                                       *)
(***************************************************************************)
\* the mandated tag count
RequiredTags == 35

(***************************************************************************)
(* Lexical tokens of a Gateway text                                        *)
(***************************************************************************)
\* the opening of a fenced code block tagged json, and the three backquotes
\* that close it
FenceOpen == "<fence-json>"
FenceClose == "<fence>"
LBrace == "{"
RBrace == "}"
LBrack == "["
RBrack == "]"
Colon == ":"
Comma == ","
\* the double quote that delimits a string literal whose content is spelled
\* out token by token (a string holding markup: fences, braces)
Quote == "<quote>"
NullTok == "null"
\* a word of natural-language prose: never a JSON token
Prose == "prose"

Punct ==
  {FenceOpen, FenceClose, LBrace, RBrace, LBrack, RBrack, Colon, Comma, Quote}
NumToks == {ToString(n) : n \in 0..MaxNum}
IsNumTok(t) == t \in NumToks
NumOf(t) == CHOOSE n \in 0..MaxNum : ToString(n) = t
\* every other token is a JSON string literal, named by its content
IsStrTok(t) == t \notin Punct \cup NumToks \cup {NullTok, Prose}

(***************************************************************************)
(* JSON values (what json.loads returns)                                   *)
(***************************************************************************)
JNull == [type |-> "null"]
JNum(n) == [type |-> "num", n |-> n]
JStr(s) == [type |-> "str", s |-> s]
\* a str given by the tokens of its content
JText(chars) == [type |-> "str", chars |-> chars]
JArr(items) == [type |-> "arr", items |-> items]
JObj(keys, vals) == [type |-> "obj", keys |-> keys, vals |-> vals]

IsList(v) == v.type = "arr"
IsDict(v) == v.type = "obj"

\* dict[k] = v : a repeated key keeps its first position and takes the
\* last value
ObjPut(keys, vals, k, v) ==
  IF \E i \in 1..Len(keys) : keys[i] = k
    THEN LET i == CHOOSE j \in 1..Len(keys) : keys[j] = k
         IN  [keys |-> keys, vals |-> [vals EXCEPT ![i] = v]]
    ELSE [keys |-> Append(keys, k), vals |-> Append(vals, v)]

HasKey(o, k) == \E i \in 1..Len(o.keys) : o.keys[i] = k
GetKey(o, k) == o.vals[CHOOSE i \in 1..Len(o.keys) : o.keys[i] = k]
\* dict.get(k, default)
DictGet(o, k, default) == IF HasKey(o, k) THEN GetKey(o, k) ELSE default
\* o[k] = v on a dict value
DictSet(o, k, v) ==
  LET p == ObjPut(o.keys, o.vals, k, v) IN JObj(p.keys, p.vals)

(***************************************************************************)
(* json.loads on a token sequence: strict JSON, the whole text one value   *)
(***************************************************************************)
PFail(i) == [ok |-> FALSE, val |-> JNull, next |-> i]
POk(v, i) == [ok |-> TRUE, val |-> v, next |-> i]

RECURSIVE ParseValue(_, _)
RECURSIVE ParseElems(_, _, _)
RECURSIVE ParseMembers(_, _, _, _)

ParseValue(t, i) ==
  IF i > Len(t) THEN PFail(i)
  ELSE LET c == t[i] IN
    CASE c = LBrack ->
           IF i + 1 <= Len(t) /\ t[i + 1] = RBrack
             THEN POk(JArr(<<>>), i + 2)
             ELSE ParseElems(t, i + 1, <<>>)
      [] c = LBrace ->
           IF i + 1 <= Len(t) /\ t[i + 1] = RBrace
             THEN POk(JObj(<<>>, <<>>), i + 2)
             ELSE ParseMembers(t, i + 1, <<>>, <<>>)
      [] c = Quote ->
           LET closing == {j \in (i + 1)..Len(t) : t[j] = Quote}
           IN  IF closing = {} THEN PFail(i)
               ELSE LET j == CHOOSE k \in closing : \A m \in closing : k <= m
                    IN  POk(JText(SubSeq(t, i + 1, j - 1)), j + 1)
      [] c = NullTok -> POk(JNull, i + 1)
      [] IsNumTok(c) -> POk(JNum(NumOf(c)), i + 1)
      [] IsStrTok(c) -> POk(JStr(c), i + 1)
      [] OTHER -> PFail(i)

ParseElems(t, i, acc) ==
  LET r == ParseValue(t, i) IN
  IF ~r.ok \/ r.next > Len(t) THEN PFail(i)
  ELSE IF t[r.next] = Comma THEN ParseElems(t, r.next + 1, Append(acc, r.val))
  ELSE IF t[r.next] = RBrack THEN POk(JArr(Append(acc, r.val)), r.next + 1)
  ELSE PFail(i)

ParseMembers(t, i, keys, vals) ==
  IF i + 1 > Len(t) \/ ~IsStrTok(t[i]) \/ t[i + 1] # Colon THEN PFail(i)
  ELSE LET r == ParseValue(t, i + 2)
           p == ObjPut(keys, vals, t[i], r.val)
       IN
       IF ~r.ok \/ r.next > Len(t) THEN PFail(i)
       ELSE IF t[r.next] = Comma
         THEN ParseMembers(t, r.next + 1, p.keys, p.vals)
       ELSE IF t[r.next] = RBrace
         THEN POk(JObj(p.keys, p.vals), r.next + 1)
       ELSE PFail(i)

\* json.loads(text): ok = FALSE stands for json.JSONDecodeError
JsonLoads(t) ==
  LET r == ParseValue(t, 1) IN
  IF r.ok /\ r.next = Len(t) + 1
    THEN [ok |-> TRUE, val |-> r.val]
    ELSE [ok |-> FALSE, val |-> JNull]

(***************************************************************************)
(* json.dumps: the token sequence of a value                               *)
(***************************************************************************)
RECURSIVE JsonDumps(_)
RECURSIVE DumpElems(_, _)
RECURSIVE DumpMembers(_, _, _)

DumpElems(items, i) ==
  IF i > Len(items) THEN <<>>
  ELSE (IF i > 1 THEN <<Comma>> ELSE <<>>) \o JsonDumps(items[i])
       \o DumpElems(items, i + 1)

DumpMembers(keys, vals, i) ==
  IF i > Len(keys) THEN <<>>
  ELSE (IF i > 1 THEN <<Comma>> ELSE <<>>) \o <<keys[i], Colon>>
       \o JsonDumps(vals[i]) \o DumpMembers(keys, vals, i + 1)

JsonDumps(v) ==
  CASE v.type = "null" -> <<NullTok>>
    [] v.type = "num" -> <<ToString(v.n)>>
    [] v.type = "str" ->
         IF "chars" \in DOMAIN v THEN <<Quote>> \o v.chars \o <<Quote>>
         ELSE <<v.s>>
    [] v.type = "arr" -> <<LBrack>> \o DumpElems(v.items, 1) \o <<RBrack>>
    [] v.type = "obj" -> <<LBrace>> \o DumpMembers(v.keys, v.vals, 1)
                         \o <<RBrace>>

(***************************************************************************)
(* str.find / str.rfind, with Python's 0-based result and -1 for absent    *)
(***************************************************************************)
Find(t, c) ==
  IF \E i \in 1..Len(t) : t[i] = c
    THEN (CHOOSE i \in 1..Len(t) :
            t[i] = c /\ \A j \in 1..(i - 1) : t[j] # c) - 1
    ELSE -1

RFind(t, c) ==
  IF \E i \in 1..Len(t) : t[i] = c
    THEN (CHOOSE i \in 1..Len(t) :
            t[i] = c /\ \A j \in (i + 1)..Len(t) : t[j] # c) - 1
    ELSE -1

\* text[a:b] for 0 <= a <= b (0-based, b exclusive)
Slice(t, a, b) == SubSeq(t, a + 1, IF b > Len(t) THEN Len(t) ELSE b)

(***************************************************************************)
(* parse_langchain_output (src/utils/seo_agents.py)                        *)
(* ok = FALSE stands for the ValueError it raises                          *)
(***************************************************************************)
\* re.search(json_pattern, text): the first opening fence and, lazily, the
\* first later run of three backquotes (which may itself open a fence)
FenceMatch(t) ==
  LET a == Find(t, FenceOpen) + 1
      closers == IF a = 0 THEN {}
                 ELSE {j \in (a + 1)..Len(t) : t[j] \in {FenceOpen, FenceClose}}
  IN  IF closers = {} THEN [found |-> FALSE, group |-> <<>>]
      ELSE LET b == CHOOSE j \in closers : \A k \in closers : j <= k
           IN  [found |-> TRUE, group |-> SubSeq(t, a + 1, b - 1)]

BraceTier(t) ==
  LET json_start == Find(t, LBrace)
      json_end == RFind(t, RBrace)
  IN  IF json_start >= 0 /\ json_end > json_start
        THEN JsonLoads(Slice(t, json_start, json_end + 1))
        ELSE [ok |-> FALSE, val |-> JNull]

\* parse_langchain_output giving up when a fenced block is found and its
\* content is not valid JSON
parse_langchain_output_FenceOnly(output_text) ==
  LET match == FenceMatch(output_text)
  IN  IF match.found THEN JsonLoads(match.group)
      ELSE BraceTier(output_text)

parse_langchain_output(output_text) ==
  LET match == FenceMatch(output_text)
      fenced == JsonLoads(match.group)
  IN  IF match.found /\ fenced.ok THEN fenced
      ELSE BraceTier(output_text)

(***************************************************************************)
(* Python operations on the values above.  A result is a record            *)
(* [exc, val]: exc = "none" or the class of the exception raised.          *)
(***************************************************************************)
Ret(v) == [exc |-> "none", val |-> v]
Raise(e) == [exc |-> e, val |-> JNull]

\* the characters of a str: the string literals of the modelled texts are
\* one character long where they are used as sequences
StrChars(s) == <<JStr(s)>>

\* len(v)
PyHasLen(v) == v.type \in {"arr", "obj", "str"}
PyLen(v) ==
  CASE v.type = "arr" -> Len(v.items)
    [] v.type = "obj" -> Len(v.keys)
    [] v.type = "str" -> Len(StrChars(v.s))
    [] OTHER -> 0

\* seq[:n]
Prefix(seq, n) == SubSeq(seq, 1, IF n < Len(seq) THEN n ELSE Len(seq))

\* range(a, b) mapped to the placeholder tags f"related_tag_{i}"
RelatedTags(a, b) ==
  [k \in 1..(IF b > a THEN b - a ELSE 0) |->
     JStr("related_tag_" \o ToString(a + k - 1))]

\* the except branch of both normalizers: tags.append for i in
\* range(current_count, 35); append exists on lists only
PadWithPlaceholders(tags, current_count) ==
  IF current_count >= RequiredTags THEN Ret(tags)
  ELSE IF IsList(tags)
    THEN Ret(JArr(tags.items \o RelatedTags(current_count, RequiredTags)))
    ELSE Raise("AttributeError")

\* tags.extend(more) inside the try block whose bare except pads
ExtendOrPad(tags, more, current_count) ==
  IF IsList(tags) THEN Ret(JArr(tags.items \o more))
  ELSE PadWithPlaceholders(tags, current_count)

\* the first array-valued field of a dict, in key order
FirstListField(o) ==
  LET idx == {i \in 1..Len(o.keys) : IsList(o.vals[i])}
  IN  IF idx = {} THEN [found |-> FALSE, items |-> <<>>]
      ELSE [found |-> TRUE,
            items |-> o.vals[CHOOSE i \in idx : \A j \in idx : i <= j].items]

\* TruncateTags keeping the last 35 tags instead of the first
TruncateTagsKeepLast(tags) ==
  CASE tags.type = "arr" ->
         Ret(JArr(SubSeq(tags.items, Len(tags.items) - RequiredTags + 1,
                         Len(tags.items))))
    [] tags.type = "str" -> Ret(tags)
    [] OTHER -> Raise("TypeError")

\* tags[:35] in the over-count branch (outside any try)
TruncateTags(tags) ==
  CASE tags.type = "arr" -> Ret(JArr(Prefix(tags.items, RequiredTags)))
    [] tags.type = "str" -> Ret(tags)
    [] OTHER -> Raise("TypeError")

(***************************************************************************)
(* A Gateway response: the call fails (raises) or returns a text           *)
(***************************************************************************)
GatewayFailure == [fail |-> TRUE, text |-> <<>>]
GatewayText(t) == [fail |-> FALSE, text |-> t]

(***************************************************************************)
(* ensure_35_tags (src/utils/seo_agents.py): resp is the response of the   *)
(* top-up Gateway call, consulted only in the under-count branch.          *)
(* calls = number of Gateway calls made.                                   *)
(***************************************************************************)
WithCalls(r, n) == [exc |-> r.exc, val |-> r.val, calls |-> n]

TopUpLangchain(tags, current_count, resp) ==
  LET needed == RequiredTags - current_count
      parsed == parse_langchain_output(resp.text)
      additional_tags == parsed.val
  IN  IF resp.fail \/ ~parsed.ok
        THEN PadWithPlaceholders(tags, current_count)
      ELSE IF IsList(additional_tags)
        THEN ExtendOrPad(tags, Prefix(additional_tags.items, needed),
                         current_count)
      ELSE IF IsDict(additional_tags)
        THEN LET f == FirstListField(additional_tags)
             IN  IF f.found
                   THEN ExtendOrPad(tags, Prefix(f.items, needed),
                                    current_count)
                   ELSE Ret(tags)
      \* iterating a number or None, or indexing a str by a character
      ELSE PadWithPlaceholders(tags, current_count)

\* ensure_35_tags making the top-up call before it looks at the count
ensure_35_tags_CallFirst(tags, resp) ==
  IF ~PyHasLen(tags) THEN WithCalls(Raise("TypeError"), 1)
  ELSE LET current_count == PyLen(tags) IN
    IF current_count = RequiredTags THEN WithCalls(Ret(tags), 1)
    ELSE IF current_count < RequiredTags
      THEN WithCalls(TopUpLangchain(tags, current_count, resp), 1)
      ELSE WithCalls(TruncateTags(tags), 1)

ensure_35_tags(tags, resp) ==
  IF ~PyHasLen(tags) THEN WithCalls(Raise("TypeError"), 0)
  ELSE LET current_count == PyLen(tags) IN
    IF current_count = RequiredTags THEN WithCalls(Ret(tags), 0)
    ELSE IF current_count < RequiredTags
      THEN WithCalls(TopUpLangchain(tags, current_count, resp), 1)
      ELSE WithCalls(TruncateTags(tags), 0)

(***************************************************************************)
(* ensure_exactly_35_tags (src/analysis_function.py)                       *)
(***************************************************************************)
TopUpGroq(tags, current_count, resp) ==
  LET needed == RequiredTags - current_count
      loaded == JsonLoads(resp.text)
      additional_tags == loaded.val
  IN  IF resp.fail \/ ~loaded.ok
        THEN PadWithPlaceholders(tags, current_count)
      ELSE IF IsList(additional_tags)
        THEN ExtendOrPad(tags, Prefix(additional_tags.items, needed),
                         current_count)
      ELSE IF additional_tags.type = "str"
        THEN ExtendOrPad(tags, Prefix(StrChars(additional_tags.s), needed),
                         current_count)
      \* slicing a dict, a number or None raises inside the try
      ELSE PadWithPlaceholders(tags, current_count)

ensure_exactly_35_tags(tags, resp) ==
  IF ~PyHasLen(tags) THEN WithCalls(Raise("TypeError"), 0)
  ELSE LET current_count == PyLen(tags) IN
    IF current_count = RequiredTags THEN WithCalls(Ret(tags), 0)
    ELSE IF current_count < RequiredTags
      THEN WithCalls(TopUpGroq(tags, current_count, resp), 1)
      ELSE WithCalls(TruncateTags(tags), 0)

\* the normalizer of a pipeline variant
Normalize(variant, tags, resp) ==
  IF variant = "langchain" THEN ensure_35_tags(tags, resp)
  ELSE ensure_exactly_35_tags(tags, resp)

(***************************************************************************)
(* Video metadata: a dict whose keys may be absent                         *)
(***************************************************************************)
MetaGet(m, k, default) == IF k \in DOMAIN m THEN m[k] ELSE default

(***************************************************************************)
(* Number of timestamps requested in the SEO prompt                        *)
(*   minutes = duration // 60                                              *)
(*   num_timestamps = min(15, max(5, int(minutes / 2))) if minutes > 0     *)
(*                    else 5                                               *)
(***************************************************************************)
MinTimestamps == 5
MaxTimestamps == 15
SecondsPerMinute == 60

Min2(a, b) == IF a < b THEN a ELSE b
Max2(a, b) == IF a > b THEN a ELSE b

\* Python floor division by a positive divisor
FloorDiv(a, b) == IF a >= 0 THEN a \div b ELSE -((-a + b - 1) \div b)

\* NumTimestamps with the minutes rounded to the nearest minute
NumTimestampsNearestMinute(video_metadata) ==
  LET duration == MetaGet(video_metadata, "duration", 0)
      minutes == FloorDiv(duration + SecondsPerMinute \div 2, SecondsPerMinute)
  IN  IF minutes > 0
        THEN Min2(MaxTimestamps, Max2(MinTimestamps, minutes \div 2))
        ELSE MinTimestamps

NumTimestamps(video_metadata) ==
  LET duration == MetaGet(video_metadata, "duration", 0)
      minutes == FloorDiv(duration, SecondsPerMinute)
  IN  IF minutes > 0
        THEN Min2(MaxTimestamps, Max2(MinTimestamps, minutes \div 2))
        ELSE MinTimestamps

(***************************************************************************)
(* Fallback generator.  String literals of the model are ASCII: the        *)
(* English table is literal, the tables of the other languages keep their  *)
(* length and order, their entries being named by language and position.   *)
(***************************************************************************)
\* LANGUAGES of the user interface (src/app.py)
LANGUAGES ==
  <<"English", "Spanish", "French", "German", "Italian", "Portuguese",
    "Hindi", "Japanese", "Korean", "Chinese", "Russian", "Arabic">>

\* the keys of TAGS_BY_LANGUAGE and TITLES_BY_LANGUAGE
TableLanguages ==
  {"English", "Spanish", "French", "German", "Italian", "Portuguese",
   "Japanese", "Korean", "Chinese", "Russian", "Arabic"}

EnglishTags ==
  <<"youtube", "video", "tutorial", "vlog", "howto", "review", "explained",
    "educational", "learn", "step by step", "beginner", "advanced",
    "masterclass", "course", "lesson", "strategy", "technique",
    "demonstration", "walkthrough", "overview", "comparison", "versus",
    "top", "best", "recommended", "trending", "viral", "popular",
    "interesting", "amazing", "helpful", "useful", "informative",
    "detailed", "comprehensive">>

\* number of entries of each list of TAGS_BY_LANGUAGE
TagTableLen ==
  [English |-> 35, Spanish |-> 34, French |-> 34, German |-> 35,
   Italian |-> 34, Portuguese |-> 34, Japanese |-> 34, Korean |-> 34,
   Chinese |-> 34, Russian |-> 34, Arabic |-> 33]

TAGS_BY_LANGUAGE(language) ==
  IF language = "English" THEN EnglishTags
  ELSE [i \in 1..TagTableLen[language] |->
          language \o " tag " \o ToString(i)]

\* the four template-derived titles of a language, by rank
TitleVariant(language, rank, title) ==
  IF language = "English"
    THEN CASE rank = 2 -> "Complete Guide to " \o title
           [] rank = 3 -> "How to " \o title
           [] rank = 4 -> "Top 10 " \o title \o " Tips"
           [] rank = 5 -> title \o " | Explained"
    ELSE language \o " variant " \o ToString(rank) \o " of " \o title

TitleReason(language, rank) ==
  IF language = "English"
    THEN CASE rank = 1 -> "Original title"
           [] rank = 2 -> "Informative"
           [] rank = 3 -> "Step-by-step guide"
           [] rank = 4 -> "List format"
           [] rank = 5 -> "Educational"
    ELSE language \o " reason " \o ToString(rank)

TitleEntry(rank, title, reason) ==
  JObj(<<"rank", "title", "reason">>, <<JNum(rank), JStr(title), JStr(reason)>>)

\* TITLES_BY_LANGUAGE with the guide title ranked before the original one
TITLES_BY_LANGUAGE_GuideFirst(language, title) ==
  <<TitleEntry(1, TitleVariant(language, 2, title), TitleReason(language, 2)),
    TitleEntry(2, title, TitleReason(language, 1)),
    TitleEntry(3, TitleVariant(language, 3, title), TitleReason(language, 3)),
    TitleEntry(4, TitleVariant(language, 4, title), TitleReason(language, 4)),
    TitleEntry(5, TitleVariant(language, 5, title), TitleReason(language, 5))>>

TITLES_BY_LANGUAGE(language, title) ==
  <<TitleEntry(1, title, TitleReason(language, 1)),
    TitleEntry(2, TitleVariant(language, 2, title), TitleReason(language, 2)),
    TitleEntry(3, TitleVariant(language, 3, title), TitleReason(language, 3)),
    TitleEntry(4, TitleVariant(language, 4, title), TitleReason(language, 4)),
    TitleEntry(5, TitleVariant(language, 5, title), TitleReason(language, 5))>>

\* TableKey defaulting to the first table after the English one
TableKeyNextTable(language) ==
  IF language \in TableLanguages THEN language ELSE "Spanish"

\* dict.get(language, table["English"])
TableKey(language) ==
  IF language \in TableLanguages THEN language ELSE "English"

StrList(seq) == JArr([i \in 1..Len(seq) |-> JStr(seq[i])])

\* generate_fallback_seo returning no timestamp
generate_fallback_seo_NoTimestamps(title, platform, language) ==
  LET tags == TAGS_BY_LANGUAGE(TableKey(language))
      titles == TITLES_BY_LANGUAGE(TableKey(language), title)
  IN  JObj(<<"tags", "description", "timestamps", "titles">>,
           <<StrList(Prefix(tags, RequiredTags)),
             JStr("This " \o platform \o " video about '" \o title
                  \o "' provides valuable insights. Watch and enjoy!"
                  \o "\n\n#YouTube #Tutorial"),
             JArr(<<>>),
             JArr(titles)>>)

\* generate_fallback_seo(title, platform, language) of src/utils/seo_agents.py
generate_fallback_seo(title, platform, language) ==
  LET tags == TAGS_BY_LANGUAGE(TableKey(language))
      titles == TITLES_BY_LANGUAGE(TableKey(language), title)
  IN  JObj(<<"tags", "description", "timestamps", "titles">>,
           <<StrList(Prefix(tags, RequiredTags)),
             JStr("This " \o platform \o " video about '" \o title
                  \o "' provides valuable insights. Watch and enjoy!"
                  \o "\n\n#YouTube #Tutorial"),
             JArr(<<JObj(<<"time", "description">>,
                         <<JStr("00:00"), JStr("Introduction")>>)>>),
             JArr(titles)>>)

\* generate_fallback_seo(video_metadata, platform, language) of
\* src/analysis_function.py
generate_fallback_seo_groq(video_metadata, platform, language) ==
  generate_fallback_seo(MetaGet(video_metadata, "title", "Video Title"),
                        platform, language)

Concept(concept, text_overlay, colors, focal_point, tone, composition) ==
  JObj(<<"concept", "text_overlay", "colors", "focal_point", "tone",
         "composition">>,
       <<JStr(concept), JStr(text_overlay), StrList(colors),
         JStr(focal_point), JStr(tone), JStr(composition)>>)

FallbackColors == <<"#FF0000", "#FFFFFF", "#000000">>

\* generate_fallback_thumbnails of src/utils/seo_agents.py
generate_fallback_thumbnails(platform, language) ==
  JObj(<<"thumbnail_concepts">>,
    <<JArr(<<
      Concept("Professional YouTube thumbnail with text overlay",
              "Ultimate Guide", FallbackColors,
              "Center of the image with clear subject",
              "Professional and educational",
              "Subject on the right, text on the left with high contrast"),
      Concept("Emotional reaction thumbnail with facial expression",
              "You Won't Believe This!", FallbackColors,
              "Close-up of surprised face or reaction",
              "Surprising and emotionally engaging",
              "Face takes up 40% of thumbnail with text above"),
      Concept("Before/After comparison thumbnail",
              "Transformations", FallbackColors,
              "Split screen showing strong contrast",
              "Impressive and motivational",
              "50/50 split with arrow or divider in the middle")>>)>>)

\* generate_fallback_thumbnails of src/analysis_function.py
generate_fallback_thumbnails_groq(platform, language) ==
  JObj(<<"thumbnail_concepts">>,
    <<JArr(<<
      Concept("Professional layout with subject and bold text",
              "Ultimate Guide", FallbackColors,
              "Centered subject", "Professional",
              "Text on left, subject on right"),
      Concept("Reaction-based thumbnail with close-up emotion",
              "You Won't Believe!", FallbackColors,
              "Emotion-filled face", "Surprising",
              "Face close-up, text on top"),
      Concept("Before/After contrast",
              "Transformation", FallbackColors,
              "Split screen", "Motivational",
              "Side-by-side comparison")>>)>>)

FallbackSeo(variant, video_metadata, platform, language) ==
  IF variant = "langchain"
    THEN generate_fallback_seo(MetaGet(video_metadata, "title", ""),
                               platform, language)
    ELSE generate_fallback_seo_groq(video_metadata, platform, language)

FallbackThumbnails(variant, platform, language) ==
  IF variant = "langchain"
    THEN generate_fallback_thumbnails(platform, language)
    ELSE generate_fallback_thumbnails_groq(platform, language)

(***************************************************************************)
(* Gateway texts the model draws its responses from                        *)
(***************************************************************************)
Bare(v) == JsonDumps(v)
Fenced(toks) == <<Prose, FenceOpen>> \o toks \o <<FenceClose, Prose>>
InProse(toks) == <<Prose, Prose>> \o toks \o <<Prose>>
Wrappings(toks) == {toks, Fenced(toks), InProse(toks)}

\* texts in which no JSON can be located
MalformedTexts ==
  {<<Prose, Prose>>, <<LBrace, Prose>>, <<RBrace, Prose, LBrace>>,
   <<LBrace, "tags", Colon, LBrack, RBrace>>,
   <<Prose, FenceOpen, LBrace, Prose, FenceClose>>}

\* JSON that is valid but not an object
NonObjects == {JArr(<<JStr("x")>>), JStr("x"), JNum(MaxNum), JNull}

NamedTags(prefix, n) == [i \in 1..n |-> JStr(prefix \o ToString(i))]

\* tag counts of the SEO responses: none, one short, exact, over
TagCounts == {0, RequiredTags - 1, RequiredTags}
             \cup ((RequiredTags + 1)..(RequiredTags + MaxExtra))

\* an SEO response object with the given tags and the given title ranks
SeoObjectRanked(tags, ranks) ==
  JObj(<<"tags", "description", "timestamps", "titles">>,
       <<tags, JStr("d"),
         JArr(<<JObj(<<"time", "description">>,
                     <<JStr("00:00"), JStr("intro")>>)>>),
         JArr([i \in 1..Len(ranks) |-> TitleEntry(ranks[i], "t", "r")])>>)

SeoObject(tags) == SeoObjectRanked(tags, <<1, 2>>)

SeoValues ==
  {SeoObject(JArr(NamedTags("tag_", n))) : n \in TagCounts}
  \cup {SeoObject(JStr("x")), SeoObject(JNum(MaxNum)),
        JObj(<<"description">>, <<JStr("d")>>),
        \* 35 tags, titles ranked 2, 1
        SeoObjectRanked(JArr(NamedTags("tag_", RequiredTags)), <<2, 1>>)}

SeoTexts ==
  UNION {Wrappings(Bare(v)) : v \in SeoValues}
  \cup UNION {{Bare(v), Fenced(Bare(v))} : v \in NonObjects}
  \cup MalformedTexts

\* top-up texts for num_needed further tags: one short, exact, one over
TopUpCounts(num_needed) ==
  {n \in {0, num_needed - 1, num_needed, num_needed + 1} : n >= 0}

TopUpValues(num_needed) ==
  {JArr(NamedTags("more_", n)) : n \in TopUpCounts(num_needed)}
  \cup {JObj(<<"count", "tags">>,
             <<JNum(num_needed), JArr(NamedTags("more_", num_needed))>>),
        JObj(<<"note">>, <<JStr("x")>>)}

TopUpTexts(num_needed) ==
  UNION {{Bare(v), Fenced(Bare(v))} : v \in TopUpValues(num_needed)}
  \cup {Bare(JStr("x")), Bare(JNum(MaxNum)), <<Prose, Prose>>}

ThumbObject(concepts, colors) ==
  JObj(<<"thumbnail_concepts">>,
       <<JArr([i \in 1..concepts |->
                 Concept("c", "t", [k \in 1..colors |-> "#000000"],
                         "f", "n", "m")])>>)

ThumbValues ==
  {ThumbObject(3, 3), ThumbObject(2, 3), ThumbObject(3, 2),
   JObj(<<"ideas">>, <<JArr(<<>>)>>)}

ThumbTexts ==
  {Bare(v) : v \in ThumbValues}
  \cup {Fenced(Bare(ThumbObject(3, 3))),
        Fenced(Bare(JArr(<<JStr("x")>>))), Bare(JArr(<<JStr("x")>>)),
        <<Prose, Prose>>, <<LBrace, Prose>>}

AnalysisTexts == {<<Prose>>, <<Prose, "summary", Prose>>}

Responses(texts) == {GatewayFailure} \cup {GatewayText(t) : t \in texts}

(***************************************************************************)
(* Inputs of a run                                                         *)
(***************************************************************************)
Variants == {"langchain", "groq"}

\* os.environ.get("GROQ_API_KEY"): unset, empty or a key
Unset == "<unset>"
Credentials == {Unset, "", "gsk_key"}
\* Truthy accepting the empty string as a key
TruthyIfSet(value) == value # Unset
Truthy(value) == value \notin {Unset, ""}

\* metadata of the runs: with and without title, platform and duration
Metadatas ==
  {[title |-> "Fix Your Sleep", platform |-> "youtube", duration |-> 900],
   [title |-> "Another Video", platform |-> "twitter", duration |-> 0],
   [platform |-> "youtube"]}

Languages == {LANGUAGES[i] : i \in 1..Len(LANGUAGES)}

\* languages of the runs: one with a full tag table, one with a short tag
\* table, one without a table
RunLanguages == {"English", "Spanish", "Hindi"}

(***************************************************************************)
(* The per-stage code of the two entry points, between two Gateway calls.  *)
(* A stage outcome is [kind, val, exc]:                                    *)
(*   kind = "done"   the stage value is val                                *)
(*   kind = "topup"  val is the parsed SEO object, its tags are under the  *)
(*                   count and the top-up Gateway call is due              *)
(*   kind = "raise"  exception exc leaves the entry point                  *)
(***************************************************************************)
NoText == <<>>
Done(v) == [kind |-> "done", val |-> v, exc |-> "none"]
NeedTopUp(v) == [kind |-> "topup", val |-> v, exc |-> "none"]
Escapes(e) == [kind |-> "raise", val |-> JNull, exc |-> e]

\* the body of the try block once the SEO text is a Python value:
\*   if len(seo_data.get("tags", [])) != 35: seo_data["tags"] = normalizer(...)
\* up to the top-up call
CheckTags(seo_data) ==
  IF ~IsDict(seo_data) THEN Escapes("AttributeError")
  ELSE LET tags == DictGet(seo_data, "tags", JArr(<<>>)) IN
    IF ~PyHasLen(tags) THEN Escapes("TypeError")
    ELSE IF PyLen(tags) = RequiredTags THEN Done(seo_data)
    ELSE IF PyLen(tags) < RequiredTags THEN NeedTopUp(seo_data)
    ELSE LET r == TruncateTags(tags) IN
      IF r.exc = "none" THEN Done(DictSet(seo_data, "tags", r.val))
      ELSE Escapes(r.exc)

\* AnalysisStage degrading to an empty analysis when the call fails
AnalysisStageDegrading(resp) ==
  [kind |-> "done", text |-> IF resp.fail THEN NoText ELSE resp.text,
   exc |-> "none"]

\* stage 1 (lines 60-66 of seo_agents.py, 28-37 of analysis_function.py):
\* the call is outside any try block and its text is kept unparsed
AnalysisStage(resp) ==
  IF resp.fail THEN [kind |-> "raise", text |-> NoText, exc |-> "GatewayError"]
  ELSE [kind |-> "done", text |-> resp.text, exc |-> "none"]

\* SeoStageLangchain without the except clause
SeoStageLangchainUncaught(seo_result, fallback) ==
  LET parsed == parse_langchain_output(seo_result)
  IN  IF ~parsed.ok THEN Escapes("ValueError") ELSE CheckTags(parsed.val)

\* run_seo_analysis_with_langchain, lines 149-157: except Exception
\* replaces every exception of the try block by the fallback
SeoStageLangchain(seo_result, fallback) ==
  LET parsed == parse_langchain_output(seo_result)
      checked == CheckTags(parsed.val)
  IN  IF ~parsed.ok \/ checked.kind = "raise" THEN Done(fallback)
      ELSE checked

\* the second tier of analyze_video_with_groq (lines 79-87 and 128-136):
\* json_end = rfind('}') + 1
BraceTierGroq(text, fallback) ==
  LET json_start == Find(text, LBrace)
      json_end == RFind(text, RBrace) + 1
      loaded == JsonLoads(Slice(text, json_start, json_end))
  IN  IF json_start >= 0 /\ json_end > json_start /\ loaded.ok
        THEN loaded.val
        ELSE fallback

\* analyze_video_with_groq, lines 72-87: only json.JSONDecodeError is caught
SeoStageGroq(seo_result_text, fallback) ==
  LET loaded == JsonLoads(seo_result_text)
  IN  IF loaded.ok THEN CheckTags(loaded.val)
      ELSE Done(BraceTierGroq(seo_result_text, fallback))

SeoStage(variant, text, fallback) ==
  IF variant = "langchain" THEN SeoStageLangchain(text, fallback)
  ELSE SeoStageGroq(text, fallback)

\* the rest of the try block after the top-up call returned or failed
AfterTopUp(variant, seo_data, resp, fallback) ==
  LET r == Normalize(variant, DictGet(seo_data, "tags", JArr(<<>>)), resp)
  IN  IF r.exc = "none" THEN Done(DictSet(seo_data, "tags", r.val))
      ELSE IF variant = "langchain" THEN Done(fallback)
      ELSE Escapes(r.exc)

\* lines 195-198 of seo_agents.py, lines 125-136 of analysis_function.py
ThumbnailStage(variant, text, fallback) ==
  IF variant = "langchain"
    THEN LET parsed == parse_langchain_output(text)
         IN  IF parsed.ok THEN parsed.val ELSE fallback
    ELSE LET loaded == JsonLoads(text)
         IN  IF loaded.ok THEN loaded.val ELSE BraceTierGroq(text, fallback)

(***************************************************************************)
(* Prompts: the values a prompt embeds                                     *)
(***************************************************************************)
Prompt(analysis, seo, num_timestamps, num_needed) ==
  [analysis |-> analysis, seo |-> seo, num_timestamps |-> num_timestamps,
   num_needed |-> num_needed]

\* what a returned text holds: "object" when a JSON object can be extracted
\* from it, "nonobject" when it is or holds valid JSON that is not an
\* object, "nojson" when it holds no parseable JSON
TextClass(text) ==
  LET extracted == parse_langchain_output(text)
      whole == JsonLoads(text)
  IN  IF extracted.ok /\ IsDict(extracted.val) THEN "object"
      ELSE IF whole.ok /\ IsDict(whole.val) THEN "object"
      ELSE IF extracted.ok \/ whole.ok THEN "nonobject"
      ELSE "nojson"

\* one Gateway call: its stage, its prompt, whether it failed, the class of
\* the text it returned and, for stage 1 whose text is the stage result,
\* the text itself
Call(stage, resp, prompt) ==
  [stage |-> stage, failed |-> resp.fail,
   class |-> IF resp.fail THEN "none" ELSE TextClass(resp.text),
   text |-> IF stage = "analysis" THEN resp.text ELSE NoText,
   prompt |-> prompt]

(***************************************************************************)
(* State of one run of a pipeline entry point                              *)
(***************************************************************************)
VARIABLES
  variant,          \* which entry point runs
  GROQ_API_KEY,     \* os.environ["GROQ_API_KEY"]
  video_metadata,   \* argument
  language,         \* argument
  pc,               \* position in the entry point
  calls,            \* the Gateway calls made so far, in order
  analysis_result,  \* text of stage 1
  seo_data,         \* SEO value (seo_result in analysis_function.py)
  thumbnail_data,   \* thumbnail value
  result,           \* what the entry point returned
  error,            \* class of the exception that left the entry point
  call,             \* a single function applied on its own: its arguments
  ret,              \* and what it returned
  heap,             \* the list objects of the interpreter, by address
  log,              \* calls made and mutations done on the heap, in order
  session_state     \* st.session_state and the widget values of each session

vars == <<variant, GROQ_API_KEY, video_metadata, language, pc, calls,
          analysis_result, seo_data, thumbnail_data, result, error,
          call, ret, heap, log, session_state>>

run_vars == <<variant, GROQ_API_KEY, video_metadata, language, pc, calls,
              analysis_result, seo_data, thumbnail_data, result, error,
              heap, log, session_state>>

inputs == <<variant, GROQ_API_KEY, video_metadata, language, call, ret,
            heap, log, session_state>>

NoCall == [fn |-> "none"]
NotReturned == [done |-> FALSE]
Returned(out) == [done |-> TRUE, out |-> out]

NoResult == [returned |-> FALSE]
PipelineResult(analysis, seo, thumbnails) ==
  [returned |-> TRUE, analysis |-> analysis, seo |-> seo,
   thumbnails |-> thumbnails]

platform == MetaGet(video_metadata, "platform", "YouTube")
RunFallbackSeo == FallbackSeo(variant, video_metadata, platform, language)
RunFallbackThumbnails == FallbackThumbnails(variant, platform, language)

Init ==
  /\ variant \in Variants
  /\ GROQ_API_KEY \in Credentials
  /\ video_metadata \in Metadatas
  /\ language \in RunLanguages
  /\ pc = "start"
  /\ calls = <<>>
  /\ analysis_result = NoText
  /\ seo_data = JNull
  /\ thumbnail_data = JNull
  /\ result = NoResult
  /\ error = "none"
  /\ call = NoCall
  /\ ret = NotReturned
  /\ heap = <<>>
  /\ log = <<>>
  /\ session_state = <<>>

RaiseFrom(e) ==
  /\ pc' = "raised"
  /\ error' = e
  /\ UNCHANGED result

\* if not os.environ.get("GROQ_API_KEY"): raise Exception(...)
CheckCredential ==
  /\ pc = "start"
  /\ IF Truthy(GROQ_API_KEY)
       THEN pc' = "analysis" /\ UNCHANGED error
       ELSE pc' = "raised" /\ error' = "ConfigurationError"
  /\ UNCHANGED <<inputs, calls, analysis_result, seo_data, thumbnail_data,
                 result>>

\* stage 1
AnalysisCall ==
  /\ pc = "analysis"
  /\ \E resp \in Responses(AnalysisTexts) :
       /\ calls' = Append(calls, Call("analysis", resp,
                                      Prompt(NoText, NoText, 0, 0)))
       /\ LET o == AnalysisStage(resp) IN
            IF o.kind = "raise"
              THEN RaiseFrom(o.exc) /\ UNCHANGED analysis_result
              ELSE /\ analysis_result' = o.text
                   /\ pc' = "seo"
                   /\ UNCHANGED <<result, error>>
  /\ UNCHANGED <<inputs, seo_data, thumbnail_data>>

\* the SEO prompt of the langchain entry point does not embed the analysis
SeoPrompt ==
  Prompt(IF variant = "groq" THEN analysis_result ELSE NoText, NoText,
         NumTimestamps(video_metadata), 0)

\* stage 2: the call is outside the try block, the parsing inside
SeoCall ==
  /\ pc = "seo"
  /\ \E resp \in Responses(SeoTexts) :
       /\ calls' = Append(calls, Call("seo", resp, SeoPrompt))
       /\ IF resp.fail
            THEN RaiseFrom("GatewayError") /\ UNCHANGED seo_data
            ELSE LET o == SeoStage(variant, resp.text, RunFallbackSeo) IN
              IF o.kind = "raise"
                THEN RaiseFrom(o.exc) /\ UNCHANGED seo_data
                ELSE /\ seo_data' = o.val
                     /\ pc' = IF o.kind = "topup" THEN "topup" ELSE "thumb"
                     /\ UNCHANGED <<result, error>>
  /\ UNCHANGED <<inputs, analysis_result, thumbnail_data>>

NumNeeded == RequiredTags - PyLen(DictGet(seo_data, "tags", JArr(<<>>)))

\* the top-up call repeated once when the Gateway fails
TopUpCallRetrying ==
  /\ pc = "topup"
  /\ \E resp \in Responses(TopUpTexts(NumNeeded)) :
       /\ calls' = Append(calls, Call("topup", resp,
                                      Prompt(NoText, NoText, 0, NumNeeded)))
       /\ IF resp.fail /\ Len(calls) < 3
            THEN UNCHANGED <<pc, seo_data, result, error>>
            ELSE LET o == AfterTopUp(variant, seo_data, resp, RunFallbackSeo)
                 IN  IF o.kind = "raise"
                       THEN RaiseFrom(o.exc) /\ UNCHANGED seo_data
                       ELSE /\ seo_data' = o.val
                            /\ pc' = "thumb"
                            /\ UNCHANGED <<result, error>>
  /\ UNCHANGED <<inputs, analysis_result, thumbnail_data>>

\* the top-up call of the normalizer and the rest of the SEO try block
TopUpCall ==
  /\ pc = "topup"
  /\ \E resp \in Responses(TopUpTexts(NumNeeded)) :
       /\ calls' = Append(calls, Call("topup", resp,
                                      Prompt(NoText, NoText, 0, NumNeeded)))
       /\ LET o == AfterTopUp(variant, seo_data, resp, RunFallbackSeo) IN
            IF o.kind = "raise"
              THEN RaiseFrom(o.exc) /\ UNCHANGED seo_data
              ELSE /\ seo_data' = o.val
                   /\ pc' = "thumb"
                   /\ UNCHANGED <<result, error>>
  /\ UNCHANGED <<inputs, analysis_result, thumbnail_data>>

\* the thumbnail prompt of the groq entry point does not embed the SEO data
ThumbnailPrompt ==
  Prompt(analysis_result,
         IF variant = "langchain" THEN JsonDumps(seo_data) ELSE NoText, 0, 0)

\* stage 3 and the return statement
ThumbnailCall ==
  /\ pc = "thumb"
  /\ \E resp \in Responses(ThumbTexts) :
       /\ calls' = Append(calls, Call("thumbnails", resp, ThumbnailPrompt))
       /\ IF resp.fail
            THEN RaiseFrom("GatewayError") /\ UNCHANGED thumbnail_data
            ELSE LET t == ThumbnailStage(variant, resp.text,
                                         RunFallbackThumbnails) IN
                 /\ thumbnail_data' = t
                 /\ result' = PipelineResult(analysis_result, seo_data, t)
                 /\ pc' = "returned"
                 /\ UNCHANGED error
  /\ UNCHANGED <<inputs, analysis_result, seo_data>>

Next ==
  \/ CheckCredential
  \/ AnalysisCall
  \/ SeoCall
  \/ TopUpCall
  \/ ThumbnailCall

Spec == Init /\ [][Next]_vars

(***************************************************************************)
(* The pure functions applied on their own: Init draws the arguments,      *)
(* one action per function applies it.                                     *)
(***************************************************************************)
\* largest duration in seconds
MaxDuration == 3700

\* tag lists of every length up to the required count and MaxExtra beyond
NormalizerInputs ==
  {JArr(NamedTags("tag_", n)) : n \in 0..(RequiredTags + MaxExtra)}

NormalizerCalls ==
  UNION {{[fn |-> "normalize", variant |-> v, tags |-> t, resp |-> r] :
            v \in Variants,
            r \in Responses(TopUpTexts(
                   Max2(0, RequiredTags - Len(t.items))))} :
         t \in NormalizerInputs}

\* every language of the interface, and one no table knows
FallbackLanguages == Languages \cup {"Klingon"}

FallbackCalls ==
  {[fn |-> "fallback_seo", variant |-> v, video_metadata |-> m,
    language |-> l] :
     v \in Variants, m \in Metadatas, l \in FallbackLanguages}

\* metadata with every duration of 0..MaxDuration seconds, and without one
DurationMetadatas ==
  {[title |-> "Fix Your Sleep", duration |-> d] : d \in 0..MaxDuration}
  \cup {[title |-> "Fix Your Sleep"]}

TimestampCalls ==
  {[fn |-> "num_timestamps", video_metadata |-> m] : m \in DurationMetadatas}

(***************************************************************************)
(* src/utils/video_extractor.py.  A URL is the sequence of its parts:      *)
(* scheme, host, path and query prefix, video id.                          *)
(***************************************************************************)
None == "<None>"
VideoId == "abc123"

\* the platform markers in the order get_video_platform tests them
PlatformMarkers ==
  <<[marker |-> "youtube.com", name |-> "youtube"],
    [marker |-> "youtu.be", name |-> "youtube"],
    [marker |-> "instagram.com", name |-> "instagram"],
    [marker |-> "facebook.com", name |-> "facebook"],
    [marker |-> "linkedin.com", name |-> "linkedin"],
    [marker |-> "tiktok.com", name |-> "tiktok"],
    [marker |-> "twitter.com", name |-> "twitter"],
    [marker |-> "x.com", name |-> "twitter"]>>

UrlHosts ==
  {PlatformMarkers[i].marker : i \in 1..Len(PlatformMarkers)}
  \cup {"example.com", "netflix.com"}

\* marker in part: the substring test of a URL part
InPart(marker, part) ==
  \/ marker = part
  \/ marker = "x.com" /\ part = "netflix.com"

\* marker in url
InUrl(marker, url) == \E i \in 1..Len(url) : InPart(marker, url[i])

\* the path and query prefixes after which the patterns capture an id
IdPrefixes == {"/watch?v=", "/embed/", "/v/", "/e/", "/shorts/"}

\* the first position at which one of the patterns matches, or 0; the
\* captured group ([^&?#]+) is not empty
PatternMatches(url) ==
  {i \in 1..(Len(url) - 2) :
     /\ url[i + 2] = VideoId
     /\ \/ url[i] = "youtube.com" /\ url[i + 1] \in IdPrefixes
        \/ url[i] = "youtu.be" /\ url[i + 1] = "/"}

\* urlparse(url): netloc is the part after the scheme
Netloc(url) == IF Len(url) >= 2 THEN url[2] ELSE ""

extract_video_id(url) ==
  IF url = <<>> THEN None
  ELSE IF PatternMatches(url) # {} THEN VideoId
  \* 'youtube.com' in netloc, 'watch' in path, 'v' in the query
  ELSE IF /\ InPart("youtube.com", Netloc(url))
          /\ Len(url) >= 4 /\ url[3] = "/watch/?v=" /\ url[4] = VideoId
    THEN VideoId
  ELSE None

RECURSIVE FirstMarker(_, _)
FirstMarker(url, i) ==
  IF i > Len(PlatformMarkers) THEN "unknown"
  ELSE IF InUrl(PlatformMarkers[i].marker, url) THEN PlatformMarkers[i].name
  ELSE FirstMarker(url, i + 1)

get_video_platform(url) ==
  IF url = <<>> THEN None ELSE FirstMarker(url, 1)

DefaultDuration == 300

\* the metadata dict get_youtube_metadata returns: fetched is the title the
\* scrape or the oEmbed request found, None when both failed
get_youtube_metadata(video_id, fetched) ==
  [title |-> IF fetched = None THEN "YouTube Video (" \o video_id \o ")"
             ELSE fetched,
   duration |-> DefaultDuration, platform |-> "youtube",
   video_id |-> video_id]

NoMetadata == [video_id |-> None]

get_video_metadata(url, fetched) ==
  IF url = <<>> THEN [exc |-> "ValueError", val |-> NoMetadata]
  ELSE LET detected == get_video_platform(url) IN
    IF detected = "youtube"
      THEN LET video_id == extract_video_id(url) IN
        IF video_id = None THEN [exc |-> "ValueError", val |-> NoMetadata]
        ELSE [exc |-> "none", val |-> get_youtube_metadata(video_id, fetched)]
      ELSE [exc |-> "none",
            val |-> [title |-> "Video on " \o detected,
                     duration |-> DefaultDuration, platform |-> detected,
                     video_id |-> "unknown"]]

\* the URLs handed to get_video_metadata
UrlTails ==
  {<<>>, <<"/video">>, <<"/watch">>, <<"/watch?v=">>, <<"/", VideoId>>,
   <<"/watch/?v=", VideoId>>, <<"/?u=", "youtube.com", "/watch?v=", VideoId>>}
  \cup {<<p, VideoId>> : p \in IdPrefixes}

Urls ==
  {<<>>}
  \cup {<<scheme, host>> \o tail :
          scheme \in {"https://", ""}, host \in UrlHosts, tail \in UrlTails}

MetadataCalls ==
  {[fn |-> "get_video_metadata", url |-> u, fetched |-> f] :
     u \in Urls, f \in {None, "Fetched Title"}}

\* longest text, in tokens, among the texts enumerated for the parser
MaxTextLen == 4
\* largest number of members of an object handed to the parser
MaxMembers == 2

\* tokens of the enumerated texts
TextAlphabet ==
  {FenceOpen, FenceClose, LBrace, RBrace, LBrack, RBrack, Colon, "a", Prose}

RECURSIVE TextsOfLen(_)
TextsOfLen(n) ==
  IF n = 0 THEN {<<>>}
  ELSE {Append(t, c) : t \in TextsOfLen(n - 1), c \in TextAlphabet}

\* every text of at most MaxTextLen tokens
RawTexts == UNION {TextsOfLen(n) : n \in 0..MaxTextLen}

\* member values: scalars, strings whose content holds a fenced block, a
\* fence or a brace, arrays and nested objects.  The content of a JText
\* has no string literal: json.dumps would escape its quotes.
ParserLeaves ==
  {JNull, JNum(1), JStr("x"),
   JText(<<FenceOpen, "1", FenceClose>>), JText(<<FenceClose>>),
   JText(<<RBrace>>), JText(<<LBrace>>),
   JArr(<<>>), JArr(<<JNum(1), JNull>>),
   JObj(<<>>, <<>>), JObj(<<"k">>, <<JArr(<<JStr("x")>>)>>)}

ObjectKeys == <<"a", "b", "c", "d">>

\* the objects of at most MaxMembers members over ParserLeaves
ParserObjects ==
  UNION {{JObj(SubSeq(ObjectKeys, 1, n), [i \in 1..n |-> vals[i]]) :
            vals \in [1..n -> ParserLeaves]} :
         n \in 0..Min2(MaxMembers, Len(ObjectKeys))}

\* the serialized object inside a fenced block tagged json
FenceWrap(toks) == <<FenceOpen>> \o toks \o <<FenceClose>>
\* the serialized object with prose before and after it
ProseWrap(toks) == <<Prose, Prose>> \o toks \o <<Prose, Prose>>

ParserCalls ==
  {[fn |-> "parse", wrap |-> "raw", obj |-> JNull, text |-> t] :
     t \in RawTexts}
  \cup {[fn |-> "parse", wrap |-> "fence", obj |-> o,
         text |-> FenceWrap(JsonDumps(o))] : o \in ParserObjects}
  \cup {[fn |-> "parse", wrap |-> "prose", obj |-> o,
         text |-> ProseWrap(JsonDumps(o))] : o \in ParserObjects}

InitFn ==
  /\ variant = "langchain"
  /\ GROQ_API_KEY = Unset
  /\ video_metadata = [platform |-> "youtube"]
  /\ language = "English"
  /\ pc = "idle"
  /\ calls = <<>>
  /\ analysis_result = NoText
  /\ seo_data = JNull
  /\ thumbnail_data = JNull
  /\ result = NoResult
  /\ error = "none"
  /\ call \in NormalizerCalls \cup FallbackCalls \cup TimestampCalls
              \cup ParserCalls \cup MetadataCalls
  /\ ret = NotReturned
  /\ heap = <<>>
  /\ log = <<>>
  /\ session_state = <<>>

ApplyNormalizer ==
  /\ call.fn = "normalize"
  /\ ~ret.done
  /\ ret' = Returned(Normalize(call.variant, call.tags, call.resp))
  /\ UNCHANGED <<run_vars, call>>

ApplyFallbackSeo ==
  /\ call.fn = "fallback_seo"
  /\ ~ret.done
  /\ ret' = Returned(FallbackSeo(call.variant, call.video_metadata,
                                 MetaGet(call.video_metadata, "platform",
                                         "YouTube"),
                                 call.language))
  /\ UNCHANGED <<run_vars, call>>

ApplyNumTimestamps ==
  /\ call.fn = "num_timestamps"
  /\ ~ret.done
  /\ ret' = Returned(NumTimestamps(call.video_metadata))
  /\ UNCHANGED <<run_vars, call>>

\* parse_langchain_output(text): ok = FALSE is the ValueError it raises
ApplyParser ==
  /\ call.fn = "parse"
  /\ ~ret.done
  /\ ret' = Returned(parse_langchain_output(call.text))
  /\ UNCHANGED <<run_vars, call>>

ApplyGetVideoMetadata ==
  /\ call.fn = "get_video_metadata"
  /\ ~ret.done
  /\ ret' = Returned(get_video_metadata(call.url, call.fetched))
  /\ UNCHANGED <<run_vars, call>>

NextFn ==
  \/ ApplyNormalizer
  \/ ApplyFallbackSeo
  \/ ApplyNumTimestamps
  \/ ApplyParser
  \/ ApplyGetVideoMetadata

SpecFn == InitFn /\ [][NextFn]_vars

(***************************************************************************)
(* The fallback generator on a heap: lists are objects with an address, a  *)
(* result holds the addresses of its lists, and a caller may mutate the    *)
(* lists of a result it was given.                                         *)
(***************************************************************************)
\* largest number of calls and mutations in one behaviour
MaxEvents == 3

\* a new list object
Alloc(h, items) == [heap |-> Append(h, items), addr |-> Len(h) + 1]

\* the calls logged so far
CallEvents(events) == {i \in 1..Len(events) : events[i].kind = "call"}

\* TitlesTable keeping one list per language and title for the life of the
\* module instead of building it in every call
TitlesTableKept(h, events, lang, title) ==
  LET same == {i \in CallEvents(events) :
                 events[i].key = lang /\ events[i].title = title}
  IN  IF same = {} THEN Alloc(h, TITLES_BY_LANGUAGE(lang, title))
      ELSE [heap |-> h, addr |-> events[CHOOSE i \in same : TRUE].titles]

\* TITLES_BY_LANGUAGE = {...} is a dict display in the function body: its
\* lists are built anew by every call (the model allocates the list of the
\* selected language only)
TitlesTable(h, events, lang, title) ==
  Alloc(h, TITLES_BY_LANGUAGE(lang, title))

\* TAGS_BY_LANGUAGE = {...}, likewise
TagsTable(h, events, lang) ==
  Alloc(h, StrList(TAGS_BY_LANGUAGE(lang)).items)

\* the title either implementation works with
FallbackTitle(v, m) ==
  IF v = "langchain" THEN MetaGet(m, "title", "")
  ELSE MetaGet(m, "title", "Video Title")

\* generate_fallback_seo on the heap: "tags": tags[:35] is a new list,
\* "titles": titles is the list of the table
FallbackSeoOnHeap(h, events, v, m, requested) ==
  LET key == TableKey(requested)
      title == FallbackTitle(v, m)
      tags == TagsTable(h, events, key)
      titles == TitlesTable(tags.heap, events, key, title)
      sliced == Alloc(titles.heap, Prefix(titles.heap[tags.addr], RequiredTags))
  IN  [heap |-> sliced.heap, key |-> key, title |-> title,
       tags |-> sliced.addr, titles |-> titles.addr]

\* the value of a result: its dict with the lists read from the heap
ResultValue(h, v, m, requested, r) ==
  DictSet(DictSet(FallbackSeo(v, m, MetaGet(m, "platform", "YouTube"),
                              requested),
                  "tags", JArr(h[r.tags])),
          "titles", JArr(h[r.titles]))

\* languages of the calls: with a table, without one
HeapLanguages == {"English", "Spanish", "Hindi"}

InitMem ==
  /\ variant \in Variants
  /\ GROQ_API_KEY = Unset
  /\ video_metadata \in Metadatas
  /\ language = "English"
  /\ pc = "idle"
  /\ calls = <<>>
  /\ analysis_result = NoText
  /\ seo_data = JNull
  /\ thumbnail_data = JNull
  /\ result = NoResult
  /\ error = "none"
  /\ call = NoCall
  /\ ret = NotReturned
  /\ heap = <<>>
  /\ log = <<>>
  /\ session_state = <<>>

mem_unchanged == <<variant, GROQ_API_KEY, video_metadata, language, pc, calls,
                   analysis_result, seo_data, thumbnail_data, result, error,
                   call, ret, session_state>>

\* one call of generate_fallback_seo; out is the value it returned, as it
\* was when it returned
CallFallbackSeo ==
  /\ pc = "idle"
  /\ call = NoCall
  /\ Len(log) < MaxEvents
  /\ \E requested \in HeapLanguages :
       LET r == FallbackSeoOnHeap(heap, log, variant, video_metadata,
                                  requested)
       IN  /\ heap' = r.heap
           /\ log' = Append(log,
                 [kind |-> "call", language |-> requested, key |-> r.key,
                  title |-> r.title, tags |-> r.tags, titles |-> r.titles,
                  out |-> ResultValue(r.heap, variant, video_metadata,
                                      requested, r)])
  /\ UNCHANGED mem_unchanged

\* the caller changes a list of a result it was given earlier:
\* list.append(x) or list.clear()
MutateResult ==
  /\ pc = "idle"
  /\ call = NoCall
  /\ Len(log) < MaxEvents
  /\ \E i \in CallEvents(log), field \in {"tags", "titles"},
        op \in {"append", "clear"} :
       LET addr == log[i][field] IN
       /\ op = "clear" => heap[addr] # <<>>
       /\ heap' = [heap EXCEPT ![addr] =
                     IF op = "clear" THEN <<>>
                     ELSE Append(heap[addr], JStr("x"))]
       /\ log' = Append(log, [kind |-> "mutate", of |-> i, field |-> field,
                              op |-> op])
  /\ UNCHANGED mem_unchanged

\* the thumbnail results returned so far
ThumbEvents(events) == {i \in 1..Len(events) : events[i].kind = "thumbs"}

\* generate_fallback_thumbnails on the heap: colors = [...] is one list and
\* "colors": colors puts it into each of the three concepts
FallbackThumbnailsOnHeap(h) ==
  LET colors == Alloc(h, StrList(FallbackColors).items)
  IN  [heap |-> colors.heap,
       colors |-> <<colors.addr, colors.addr, colors.addr>>]

\* the colors of the concepts of a Gateway text: three hex codes each, or
\* two in the last concept
ParsedColors ==
  {<<StrList(<<"#111111", "#222222", "#333333">>).items,
     StrList(<<"#111111", "#222222", "#333333">>).items,
     StrList(<<"#111111", "#222222", "#333333">>).items>>,
   <<StrList(<<"#111111", "#222222", "#333333">>).items,
     StrList(<<"#111111", "#222222", "#333333">>).items,
     StrList(<<"#111111", "#222222">>).items>>}

\* json.loads builds a list of its own for every array of the text
ParsedThumbnailsOnHeap(h, colors) ==
  LET c1 == Alloc(h, colors[1])
      c2 == Alloc(c1.heap, colors[2])
      c3 == Alloc(c2.heap, colors[3])
  IN  [heap |-> c3.heap, colors |-> <<c1.addr, c2.addr, c3.addr>>]

\* create_gradient_background(concept):
\*   colors = concept.get('colors', [...])
\*   if len(colors) > 2: colors.append('#FFFFFF')
\* colors is the list of the concept itself
create_gradient_background(h, addr) ==
  IF Len(h[addr]) > 2
    THEN [h EXCEPT ![addr] = Append(h[addr], JStr("#FFFFFF"))]
    ELSE h

\* stage 3 returns a thumbnails value, from the fallback generator or parsed
\* from the Gateway's text; out is the colors of its concepts as returned
ReturnThumbnails ==
  /\ pc = "idle"
  /\ call = NoCall
  /\ Len(log) < MaxEvents
  /\ \E r \in {FallbackThumbnailsOnHeap(heap)}
              \cup {ParsedThumbnailsOnHeap(heap, c) : c \in ParsedColors} :
       /\ heap' = r.heap
       /\ log' = Append(log,
             [kind |-> "thumbs", colors |-> r.colors,
              out |-> [k \in 1..3 |-> r.heap[r.colors[k]]]])
  /\ UNCHANGED mem_unchanged

\* create_thumbnail_preview(concept, title) without a base image, for one
\* concept of a returned result: it starts with
\* create_gradient_background(concept)
RenderPreview ==
  /\ pc = "idle"
  /\ call = NoCall
  /\ Len(log) < MaxEvents
  /\ \E i \in ThumbEvents(log), k \in 1..3 :
       /\ heap' = create_gradient_background(heap, log[i].colors[k])
       /\ log' = Append(log, [kind |-> "render", of |-> i, concept |-> k])
  /\ UNCHANGED mem_unchanged

NextMem ==
  \/ CallFallbackSeo
  \/ MutateResult
  \/ ReturnThumbnails
  \/ RenderPreview

SpecMem == InitMem /\ [][NextMem]_vars

(***************************************************************************)
(* src/app.py: the script is run from top to bottom for one session after  *)
(* every interaction of that session.  os.environ belongs to the process,  *)
(* st.session_state and the widget values to the session.                  *)
(***************************************************************************)
Sessions == {"s1", "s2"}

\* the key the user of a session types into the sidebar
KeyOf(s) == "gsk_" \o s

\* the URLs typed into the URL field: two videos, and a YouTube URL without
\* a video id, for which get_video_metadata raises
UrlA == <<"https://", "youtube.com", "/watch?v=", VideoId>>
UrlB == <<"https://", "twitter.com", "/video">>
UrlBad == <<"https://", "youtube.com", "/watch">>
AppUrls == {UrlA, UrlB, UrlBad}

NoRun == [outcome |-> "none", credential |-> Unset, entered |-> "",
          key_entered |-> FALSE]

\* the session after the first run of the script (lines 91-98), with empty
\* widgets; key_entered and last_run record the history of the session
NewSession ==
  [groq_api_key |-> "", url_input |-> <<>>,
   analysis_complete |-> FALSE, analysis_results |-> NoResult,
   video_metadata |-> NoMetadata, video_url |-> <<>>,
   key_entered |-> FALSE, last_run |-> NoRun]

\* what an entry point returned for a URL and its metadata
AppResult(url, metadata) ==
  [returned |-> TRUE, video_url |-> url, video_metadata |-> metadata]

\* one run of the script for a session whose widget values are in st:
\* clicked is whether the Generate button was pressed, outcome what the
\* entry point does if it is called
ScriptRun(st, environ, clicked, outcome) ==
  LET \* if groq_api_key: os.environ["GROQ_API_KEY"] = groq_api_key
      env1 == IF st.groq_api_key # "" THEN st.groq_api_key ELSE environ
      url == st.url_input
      fetched == get_video_metadata(url, None)
      \* if video_url: st.session_state.video_url = video_url
      st1 == IF url # <<>> THEN [st EXCEPT !.video_url = url] ELSE st
      \* metdata = get_video_metadata(video_url); ... video_metadata = metdata
      st2 == IF url # <<>> /\ fetched.exc = "none"
               THEN [st1 EXCEPT !.video_metadata = fetched.val]
               ELSE st1
      pressed == clicked /\ url # <<>> /\ fetched.exc = "none"
      ran(o) == [outcome |-> o, credential |-> env1,
                 entered |-> st.groq_api_key, key_entered |-> st.key_entered]
      st3 == IF ~pressed THEN st2
             \* if not os.environ.get("GROQ_API_KEY"): st.error(...)
             ELSE IF ~Truthy(env1)
               THEN [st2 EXCEPT !.last_run = ran("rejected")]
             ELSE IF outcome = "returned"
               THEN [st2 EXCEPT
                       !.analysis_results =
                          AppResult(url, st2.video_metadata),
                       !.analysis_complete = TRUE,
                       !.last_run = ran("returned")]
             \* except Exception as e: st.error(...)
             ELSE [st2 EXCEPT !.last_run = ran("raised")]
  IN  [environ |-> env1, st |-> st3]

\* the results section is rendered (line 154)
Displayed(st) == st.analysis_complete /\ st.analysis_results.returned

InitApp ==
  /\ variant = "langchain"
  /\ GROQ_API_KEY = Unset
  /\ video_metadata = NoMetadata
  /\ language = "English"
  /\ pc = "idle"
  /\ calls = <<>>
  /\ analysis_result = NoText
  /\ seo_data = JNull
  /\ thumbnail_data = JNull
  /\ result = NoResult
  /\ error = "none"
  /\ call = NoCall
  /\ ret = NotReturned
  /\ heap = <<>>
  /\ log = <<>>
  /\ session_state = [s \in Sessions |-> NewSession]

app_unchanged == <<variant, video_metadata, language, pc, calls,
                   analysis_result, seo_data, thumbnail_data, result, error,
                   call, ret, heap, log>>

\* the script has run for session s with the widget values of st
Rerun(s, st, clicked, outcome) ==
  LET r == ScriptRun(st, GROQ_API_KEY, clicked, outcome) IN
  /\ GROQ_API_KEY' = r.environ
  /\ session_state' = [session_state EXCEPT ![s] = r.st]
  /\ UNCHANGED app_unchanged

\* the user of a session types a key into the sidebar field, or empties it
EnterKey ==
  \E s \in Sessions : \E k \in {"", KeyOf(s)} :
    /\ session_state[s].groq_api_key # k
    /\ Rerun(s, [session_state[s] EXCEPT
                   !.groq_api_key = k,
                   !.key_entered = session_state[s].key_entered \/ k # ""],
             FALSE, "none")

\* the user of a session types a URL into the URL field
EnterUrl ==
  \E s \in Sessions, u \in AppUrls :
    /\ session_state[s].url_input # u
    /\ Rerun(s, [session_state[s] EXCEPT !.url_input = u], FALSE, "none")

\* the user of a session presses Generate SEO Recommendations, which is
\* shown when the metadata of the URL in the field was fetched; the entry
\* point returns or raises
ClickGenerate ==
  \E s \in Sessions, outcome \in {"returned", "raised"} :
    /\ session_state[s].url_input # <<>>
    /\ get_video_metadata(session_state[s].url_input, None).exc = "none"
    /\ Rerun(s, session_state[s], TRUE, outcome)

NextApp ==
  \/ EnterKey
  \/ EnterUrl
  \/ ClickGenerate

SpecApp == InitApp /\ [][NextApp]_vars

(***************************************************************************)
(* Properties                                                              *)
(***************************************************************************)
\* the tags of an SEO value, and its count invariant
SeoTags(seo) ==
  IF IsDict(seo) /\ HasKey(seo, "tags") THEN GetKey(seo, "tags") ELSE JNull
HasExactly35Tags(seo) ==
  IsList(SeoTags(seo)) /\ Len(SeoTags(seo).items) = RequiredTags

LastCall == calls[Len(calls)]
NormalizerReturned == call.fn = "normalize" /\ ret.done
FallbackSeoReturned == call.fn = "fallback_seo" /\ ret.done
NumTimestampsReturned == call.fn = "num_timestamps" /\ ret.done

\* C1: every result an entry point returns has exactly 35 elements in
\* seo.tags, whatever the Gateway returned in its calls.
C1_ResultHas35Tags ==
  result.returned => HasExactly35Tags(result.seo)

\* C2: the tag normalizer returns a list of exactly 35 elements for every
\* input list and every outcome of the top-up call.
C2_NormalizerReturns35 ==
  NormalizerReturned =>
    /\ ret.out.exc = "none"
    /\ IsList(ret.out.val)
    /\ Len(ret.out.val.items) = RequiredTags

\* C3: the first min(len(input), 35) elements of the normalizer's output are
\* the first min(len(input), 35) elements of its input in the same order;
\* an input longer than 35 yields exactly its first 35 elements and an
\* input of exactly 35 is returned as it is.
C3_OrderPreserved ==
  NormalizerReturned =>
    LET input == call.tags.items
        n == Min2(Len(input), RequiredTags)
    IN  /\ ret.out.exc = "none"
        /\ IsList(ret.out.val)
        /\ Len(ret.out.val.items) >= n
        /\ SubSeq(ret.out.val.items, 1, n) = SubSeq(input, 1, n)
        /\ Len(input) > RequiredTags =>
             ret.out.val.items = SubSeq(input, 1, RequiredTags)
        /\ Len(input) = RequiredTags => ret.out.val.items = input

\* an under-count input was topped up by a tag the Gateway returned
C3_Witness ==
  /\ NormalizerReturned
  /\ Len(call.tags.items) = RequiredTags - 1
  /\ Len(ret.out.val.items) = RequiredTags
  /\ ret.out.val.items[RequiredTags] = JStr("more_1")

\* C4: the fallback SEO result has exactly 35 tags for every language of the
\* fallback tag table, in both generate_fallback_seo implementations.
C4_FallbackHas35Tags ==
  (FallbackSeoReturned /\ call.language \in TableLanguages) =>
    HasExactly35Tags(ret.out)

\* C5: when the Gateway call of the SEO stage or of the thumbnail stage
\* fails, the run does not fail: the stage's result is the fallback, the
\* later stages execute and a result is returned.
C5_StageFailureRecovered ==
  (calls # <<>> /\ LastCall.failed
     /\ LastCall.stage \in {"seo", "thumbnails"}) =>
    /\ pc # "raised"
    /\ LastCall.stage = "seo" =>
         pc = "thumb" /\ seo_data = RunFallbackSeo
    /\ LastCall.stage = "thumbnails" =>
         result.returned /\ result.thumbnails = RunFallbackThumbnails

\* C6: when the text of the SEO stage or of the thumbnail stage cannot be
\* extracted as a JSON object (valid JSON that is not an object included),
\* the stage's result is the fallback generator's output and no error
\* reaches the caller.
C6_UnextractableTextRecovered ==
  (calls # <<>> /\ LastCall.class \in {"nojson", "nonobject"}
     /\ LastCall.stage \in {"seo", "thumbnails"}) =>
    /\ pc # "raised"
    /\ LastCall.stage = "seo" =>
         pc = "thumb" /\ seo_data = RunFallbackSeo
    /\ LastCall.stage = "thumbnails" =>
         result.returned /\ result.thumbnails = RunFallbackThumbnails

\* C7: without a credential the run fails with the configuration error and
\* has made no Gateway call; the credential check precedes the first
\* Gateway call of every run.
C7_CredentialCheckedFirst ==
  /\ GROQ_API_KEY \in {Unset, ""} =>
       /\ calls = <<>>
       /\ ~result.returned
       /\ pc \in {"start", "raised"}
       /\ pc = "raised" => error = "ConfigurationError"
  /\ calls # <<>> => pc # "start" /\ GROQ_API_KEY \notin {Unset, ""}
  /\ error = "ConfigurationError" => calls = <<>>

\* a run with an empty key was rejected
C7_Witness ==
  /\ GROQ_API_KEY = ""
  /\ pc = "raised"
  /\ error = "ConfigurationError"
  /\ calls = <<>>

\* C8: when the Gateway call of the analysis stage fails, the run fails with
\* that error, makes no further Gateway call and returns no result.
C8_AnalysisFailureIsFatal ==
  calls # <<>> =>
    /\ calls[1].stage = "analysis"
    /\ calls[1].failed =>
         /\ pc = "raised"
         /\ error = "GatewayError"
         /\ Len(calls) = 1
         /\ ~result.returned
         /\ seo_data = JNull /\ thumbnail_data = JNull

\* the analysis call failed and the run has ended
C8_Witness ==
  /\ calls # <<>>
  /\ calls[1].stage = "analysis"
  /\ calls[1].failed
  /\ pc = "raised"

\* every Gateway call of the run so far returned text without parseable JSON
AllNoJson ==
  /\ calls # <<>>
  /\ \A i \in 1..Len(calls) : ~calls[i].failed /\ calls[i].class = "nojson"

ConceptsOf(thumbnails) ==
  IF IsDict(thumbnails) /\ HasKey(thumbnails, "thumbnail_concepts")
       /\ IsList(GetKey(thumbnails, "thumbnail_concepts"))
    THEN GetKey(thumbnails, "thumbnail_concepts").items
    ELSE <<>>

ThreeConceptsOfThreeColors(thumbnails) ==
  /\ Len(ConceptsOf(thumbnails)) = 3
  /\ \A i \in 1..3 :
       LET c == ConceptsOf(thumbnails)[i] IN
       /\ IsDict(c) /\ HasKey(c, "colors")
       /\ IsList(GetKey(c, "colors"))
       /\ Len(GetKey(c, "colors").items) = 3

\* C9: when every Gateway call of a run returns text without parseable JSON
\* and the language is English, the run returns: analysis is the raw
\* stage-1 text, seo.tags has 35 entries, seo.titles[0] has rank 1 and the
\* metadata title, thumbnails holds 3 concepts of 3 colors each.
C9_MalformedEverywhere ==
  (language = "English" /\ AllNoJson) =>
    /\ pc # "raised"
    /\ \A i \in 1..Len(calls) : calls[i].stage # "topup"
    /\ Len(calls) = 3 => result.returned
    /\ result.returned =>
         LET first == GetKey(result.seo, "titles").items[1] IN
         /\ result.analysis = calls[1].text
         /\ HasExactly35Tags(result.seo)
         /\ GetKey(first, "rank") = JNum(1)
         /\ "title" \in DOMAIN video_metadata =>
              GetKey(first, "title") = JStr(video_metadata.title)
         /\ ThreeConceptsOfThreeColors(result.thumbnails)

\* the scenario of the specification: a run in English on "Fix Your Sleep"
\* returned after three malformed texts
C9_Witness ==
  /\ language = "English"
  /\ AllNoJson
  /\ result.returned
  /\ video_metadata = [title |-> "Fix Your Sleep", platform |-> "youtube",
                       duration |-> 900]
  /\ Len(calls) = 3

Clamp(v, lo, hi) == Min2(hi, Max2(lo, v))

\* round(a / b) for a >= 0, b > 0 and b even, ties to the even neighbour as
\* Python rounds
RoundDiv(a, b) ==
  LET q == a \div b
      r == a % b
  IN  IF 2 * r < b THEN q
      ELSE IF 2 * r > b THEN q + 1
      ELSE IF q % 2 = 0 THEN q ELSE q + 1

RequestedDuration == MetaGet(call.video_metadata, "duration", 0)

\* C10 as stated: the number of timestamps requested equals
\* clamp(round(duration_minutes / 2), 5, 15), duration_minutes being
\* duration_seconds / 60, and 5 when the duration is 0 or missing.
C10_RoundedFormula ==
  NumTimestampsReturned =>
    ret.out = Clamp(RoundDiv(RequestedDuration, 2 * SecondsPerMinute),
                    MinTimestamps, MaxTimestamps)

\* C10 amended: the number of timestamps requested equals
\* clamp(floor(duration_minutes / 2), 5, 15), the quotient rounded down,
\* and 5 when the duration is 0 or missing.
C10_FlooredFormula ==
  NumTimestampsReturned =>
    /\ ret.out = Clamp(RequestedDuration \div (2 * SecondsPerMinute),
                       MinTimestamps, MaxTimestamps)
    /\ "duration" \notin DOMAIN call.video_metadata => ret.out = MinTimestamps

\* 900 seconds: 7 timestamps, where rounding to nearest would give 8
C10_Witness ==
  /\ NumTimestampsReturned
  /\ RequestedDuration = 900
  /\ ret.out = 7


\* C11: for every JSON object O, parse_langchain_output returns O both for
\* O serialized inside a json fence and for O serialized with prose before
\* and after it.
ParserReturned == call.fn = "parse" /\ ret.done
C11_RoundTrip ==
  (ParserReturned /\ call.wrap \in {"fence", "prose"}) =>
    /\ ret.out.ok
    /\ ret.out.val = call.obj

\* C12: parse_langchain_output returns a JSON object or raises: it never
\* returns an array, a scalar or null, and it raises for a text of prose
\* only.
C12_ObjectOrError ==
  ParserReturned =>
    /\ ret.out.ok => IsDict(ret.out.val)
    /\ (\A i \in 1..Len(call.text) : call.text[i] = Prose) => ~ret.out.ok


\* the titles of an SEO value are a list of objects ranked 1, 2, 3, ...
RanksFromOne(seo) ==
  /\ IsDict(seo) /\ HasKey(seo, "titles") /\ IsList(GetKey(seo, "titles"))
  /\ LET titles == GetKey(seo, "titles").items IN
       \A i \in 1..Len(titles) :
         /\ IsDict(titles[i])
         /\ DictGet(titles[i], "rank", JNull) = JNum(i)

\* C13: in every returned result, parsed from the Gateway or produced by the
\* fallback generator, the i-th title (counting from 0) has rank i + 1.
C13_TitleRanks ==
  result.returned => RanksFromOne(result.seo)

\* C14: every returned result has a thumbnails value of exactly 3 concepts
\* with exactly 3 colors each, also when it was parsed from the Gateway's
\* text.
C14_ThumbnailsThreeByThree ==
  result.returned => ThreeConceptsOfThreeColors(result.thumbnails)


\* C15: two calls of generate_fallback_seo with identical arguments return
\* identical results, and what a call returns is determined by its
\* arguments alone: neither an earlier call nor a change made to an earlier
\* result shows in it.
C15_FallbackSeoPure ==
  /\ \A i, j \in CallEvents(log) :
       log[i].language = log[j].language => log[i].out = log[j].out
  /\ \A i \in CallEvents(log) :
       log[i].out = FallbackSeo(variant, video_metadata, platform,
                                log[i].language)

\* a result was returned, one of its lists was cleared by the caller, and a
\* later call with the same arguments returned
C15_Witness ==
  /\ Len(log) = 3
  /\ log[1].kind = "call" /\ log[3].kind = "call"
  /\ log[1].language = log[3].language
  /\ log[2].kind = "mutate" /\ log[2].of = 1 /\ log[2].op = "clear"
  /\ log[2].field = "titles"
  /\ heap[log[1].titles] = <<>>
  /\ Len(log[3].out.vals[4].items) = 5


\* C16: for a requested language that is not a key of the fallback tables
\* (Hindi, which the interface offers, included) generate_fallback_seo
\* returns what it returns for English with the same title and platform,
\* and it returns a result (it does not raise).
C16_UnknownLanguageIsEnglish ==
  (FallbackSeoReturned /\ call.language \notin TableLanguages) =>
    /\ IsDict(ret.out)
    /\ ret.out = FallbackSeo(call.variant, call.video_metadata,
                             MetaGet(call.video_metadata, "platform",
                                     "YouTube"),
                             "English")

\* the fallback for Hindi returned the English tags
C16_Witness ==
  /\ FallbackSeoReturned
  /\ call.language = "Hindi"
  /\ SeoTags(ret.out) = StrList(EnglishTags)

\* C17: for every language generate_fallback_seo returns exactly 5 titles
\* ranked 1, 2, 3, 4, 5 in that order, and the title of rank 1 is the
\* original video title, unchanged.
C17_FiveRankedTitles ==
  FallbackSeoReturned =>
    LET titles == DictGet(ret.out, "titles", JNull) IN
    /\ IsList(titles)
    /\ Len(titles.items) = 5
    /\ \A i \in 1..5 : DictGet(titles.items[i], "rank", JNull) = JNum(i)
    /\ DictGet(titles.items[1], "title", JNull)
         = JStr(FallbackTitle(call.variant, call.video_metadata))
    /\ "title" \in DOMAIN call.video_metadata =>
         DictGet(titles.items[1], "title", JNull)
           = JStr(call.video_metadata.title)

\* the fallback for a language with a table of its own, from metadata that
\* has a title: the rank-5 title is a variant of it
C17_Witness ==
  /\ FallbackSeoReturned
  /\ call.language = "Japanese"
  /\ call.video_metadata = [title |-> "Fix Your Sleep",
                            platform |-> "youtube", duration |-> 900]
  /\ DictGet(GetKey(ret.out, "titles").items[1], "title", JNull)
       = JStr("Fix Your Sleep")
  /\ DictGet(GetKey(ret.out, "titles").items[5], "title", JNull)
       = JStr("Japanese variant 5 of Fix Your Sleep")


\* C18: get_video_metadata fails with the invalid-URL error and returns no
\* metadata whenever the platform of the URL is detected as unknown or no
\* video identifier can be extracted from the URL.
MetadataReturned == call.fn = "get_video_metadata" /\ ret.done
C18_UnsupportedUrlRejected ==
  (/\ MetadataReturned
   /\ \/ get_video_platform(call.url) = "unknown"
      \/ extract_video_id(call.url) = None) =>
    /\ ret.out.exc = "ValueError"
    /\ ret.out.val = NoMetadata


\* C19: an SEO value parsed from the Gateway's text, by either extraction
\* tier, whose tag count is not 35 has been through the tag normalizer
\* before the thumbnail stage uses it or the run returns it: no over-count
\* is left, and an under-count is left only after the top-up call.
TopUpCalled == \E i \in 1..Len(calls) : calls[i].stage = "topup"
C19_ParsedTagsNormalized ==
  (pc \in {"thumb", "returned"} /\ IsDict(seo_data)
     /\ seo_data # RunFallbackSeo) =>
    LET tags == DictGet(seo_data, "tags", JArr(<<>>)) IN
    (PyHasLen(tags) /\ PyLen(tags) # RequiredTags) =>
      /\ PyLen(tags) < RequiredTags
      /\ TopUpCalled

\* the top-up response of a normalizer call was parsed into a list: a JSON
\* array, or for ensure_35_tags an object with an array-valued field
ParsedIntoList(v, resp) ==
  /\ ~resp.fail
  /\ IF v = "langchain"
       THEN LET parsed == parse_langchain_output(resp.text) IN
            /\ parsed.ok
            /\ \/ IsList(parsed.val)
               \/ IsDict(parsed.val) /\ FirstListField(parsed.val).found
       ELSE LET loaded == JsonLoads(resp.text) IN
            loaded.ok /\ IsList(loaded.val)

\* C20: in the under-count case, when the top-up call fails or its response
\* is not parsed into a list, the normalizer returns the input tags
\* followed by related_tag_i for i from the input's length to 34, in
\* increasing i.
C20_PaddedWithPlaceholders ==
  (/\ NormalizerReturned
   /\ Len(call.tags.items) < RequiredTags
   /\ ~ParsedIntoList(call.variant, call.resp)) =>
    /\ ret.out.exc = "none"
    /\ ret.out.val =
         JArr(call.tags.items
              \o RelatedTags(Len(call.tags.items), RequiredTags))


\* the top-up response of a normalizer call, read as one JSON value
TopUpJson == JsonLoads(call.resp.text)
TopUpNeeded == RequiredTags - Len(call.tags.items)
UnderCountCall ==
  NormalizerReturned /\ Len(call.tags.items) < RequiredTags /\ ~call.resp.fail

\* C21: in the under-count case, when the top-up response is a bare JSON
\* array of at least 35 - len(tags) strings, the normalizer appends the
\* first 35 - len(tags) of them in the order returned and no placeholder.
C21_BareArrayAppended ==
  (/\ UnderCountCall
   /\ TopUpJson.ok /\ IsList(TopUpJson.val)
   /\ Len(TopUpJson.val.items) >= TopUpNeeded
   /\ \A i \in 1..Len(TopUpJson.val.items) :
        TopUpJson.val.items[i].type = "str") =>
    /\ ret.out.exc = "none"
    /\ ret.out.val =
         JArr(call.tags.items \o Prefix(TopUpJson.val.items, TopUpNeeded))

\* C22: in the under-count case, when the top-up response is a JSON object
\* with an array-valued field, the normalizer of either variant appends up
\* to the needed count of the elements of the first such field, in order.
C22_ObjectUnwrapped ==
  (/\ UnderCountCall
   /\ TopUpJson.ok /\ IsDict(TopUpJson.val)
   /\ FirstListField(TopUpJson.val).found) =>
    /\ ret.out.exc = "none"
    /\ LET taken == Prefix(FirstListField(TopUpJson.val).items, TopUpNeeded)
       IN  /\ Len(ret.out.val.items) >= Len(call.tags.items) + Len(taken)
           /\ Prefix(ret.out.val.items, Len(call.tags.items) + Len(taken))
                = call.tags.items \o taken

\* C23: one call of the tag normalizer makes exactly one Gateway call when
\* its input has fewer than 35 tags and none when it has 35 or more.
C23_OneCallWhenUnder ==
  NormalizerReturned =>
    ret.out.calls = IF Len(call.tags.items) < RequiredTags THEN 1 ELSE 0

\* an under-count input whose single top-up call failed, and an over-count
\* input truncated without a call
C23_Witness ==
  /\ NormalizerReturned
  /\ \/ /\ Len(call.tags.items) = RequiredTags - 1
        /\ call.resp.fail
        /\ ret.out.calls = 1
        /\ Len(ret.out.val.items) = RequiredTags
     \/ /\ Len(call.tags.items) > RequiredTags
        /\ ret.out.calls = 0
        /\ Len(ret.out.val.items) = RequiredTags


\* the two attempts of the parser on the text of a parser call
FencedAttempt ==
  LET match == FenceMatch(call.text)
  IN  IF match.found THEN JsonLoads(match.group)
      ELSE [ok |-> FALSE, val |-> JNull]
BraceAttempt ==
  LET json_start == Find(call.text, LBrace)
      json_end == RFind(call.text, RBrace)
  IN  IF json_start >= 0 /\ json_end > json_start
        THEN JsonLoads(SubSeq(call.text, json_start + 1, json_end + 1))
        ELSE [ok |-> FALSE, val |-> JNull]

\* C24: parse_langchain_output returns the parsed content of the json
\* fenced block when that is valid JSON; when there is no fenced block or
\* its content is not valid JSON, it returns the parsed substring from the
\* first opening brace to the last closing brace when that is valid; it
\* raises only when both attempts fail.
C24_FenceThenBraces ==
  ParserReturned =>
    /\ FencedAttempt.ok =>
         (ret.out.ok /\ ret.out.val = FencedAttempt.val)
    /\ (~FencedAttempt.ok /\ BraceAttempt.ok) =>
         (ret.out.ok /\ ret.out.val = BraceAttempt.val)
    /\ ~ret.out.ok <=> (~FencedAttempt.ok /\ ~BraceAttempt.ok)

\* a fenced block whose content is not valid JSON, followed by an object
\* that the brace attempt returns
C24_Witness ==
  /\ ParserReturned
  /\ FenceMatch(call.text).found
  /\ ~FencedAttempt.ok
  /\ ret.out.ok
  /\ IsDict(ret.out.val)


\* C27: the fallback SEO result has exactly one timestamp, with time 00:00
\* and the label Introduction, for every metadata duration and language.
C27_OneIntroTimestamp ==
  FallbackSeoReturned =>
    /\ IsDict(ret.out) /\ HasKey(ret.out, "timestamps")
    /\ LET timestamps == GetKey(ret.out, "timestamps") IN
         /\ IsList(timestamps)
         /\ Len(timestamps.items) = 1
         /\ DictGet(timestamps.items[1], "time", JNull) = JStr("00:00")
         /\ DictGet(timestamps.items[1], "description", JNull)
              = JStr("Introduction")

\* the fallback for a 15 minute video in a language without a table
C27_Witness ==
  /\ FallbackSeoReturned
  /\ MetaGet(call.video_metadata, "duration", 0) = 900
  /\ call.language \notin Languages
  /\ Len(GetKey(ret.out, "timestamps").items) = 1


\* the stages of the Gateway calls made so far, in order
StagesCalled == [i \in 1..Len(calls) |-> calls[i].stage]

\* C25: within one run the Gateway is called in the order analysis, SEO,
\* optional top-up, thumbnails; each stage is called at most once, a failed
\* stage call is not repeated and ends the run, the top-up is called only
\* between the SEO and the thumbnail call, and a run makes at most 4 calls.
C25_FixedCallOrder ==
  /\ Len(calls) <= 4
  /\ \/ StagesCalled
          = Prefix(<<"analysis", "seo", "topup", "thumbnails">>, Len(calls))
     \/ StagesCalled = Prefix(<<"analysis", "seo", "thumbnails">>, Len(calls))
  /\ \A i \in 1..Len(calls) :
       (calls[i].failed /\ calls[i].stage # "topup") =>
         (i = Len(calls) /\ pc = "raised")
  /\ (calls # <<>> /\ calls[Len(calls)].stage = "thumbnails") =>
       pc \in {"returned", "raised"}
  /\ pc = "returned" => calls[Len(calls)].stage = "thumbnails"

\* a returned run of four calls whose top-up call failed
C25_Witness ==
  /\ pc = "returned"
  /\ Len(calls) = 4
  /\ calls[3].stage = "topup"
  /\ calls[3].failed

\* C26: in both variants the prompt of the SEO call embeds the analysis text
\* of stage 1, and the prompt of the thumbnail call embeds that analysis
\* text and the finalized SEO value, the one returned as seo.
C26_ContextChained ==
  \A i \in 1..Len(calls) :
    /\ calls[i].stage = "seo" =>
         /\ calls[1].stage = "analysis"
         /\ calls[i].prompt.analysis = calls[1].text
    /\ calls[i].stage = "thumbnails" =>
         /\ calls[i].prompt.analysis = calls[1].text
         /\ calls[i].prompt.seo = JsonDumps(seo_data)
         /\ result.returned => result.seo = seo_data


\* C28: a returned result is not changed by preview renderings: after any
\* number of renderings of any of its concepts, every concept of the result
\* has the colors list it was returned with (of 3 elements when it was
\* returned with 3).
C28_ResultUnchangedByPreview ==
  \A i \in ThumbEvents(log), k \in 1..3 :
    heap[log[i].colors[k]] = log[i].out[k]


\* C29: sessions of one process share no mutable state: a run started from
\* a session that never entered a key is rejected with the missing
\* credential error whatever other sessions entered, and the credential a
\* run uses is the one entered in its own session.
C29_CredentialPerSession ==
  \A s \in Sessions :
    LET run == session_state[s].last_run IN
    /\ (run.outcome # "none" /\ ~run.key_entered) => run.outcome = "rejected"
    /\ run.outcome \in {"returned", "raised"} => run.credential = run.entered

\* C30: in the session state, analysis_complete is true only if
\* analysis_results holds the result of a run that returned, and displayed
\* results were computed for the URL and the metadata the session stores.
C30_ResultsOfStoredVideo ==
  \A s \in Sessions :
    LET st == session_state[s] IN
    /\ st.analysis_complete => st.analysis_results.returned
    /\ Displayed(st) =>
         /\ st.analysis_results.video_url = st.video_url
         /\ st.analysis_results.video_metadata = st.video_metadata

=============================================================================
